---- MODULE Spec2Model ----
(***************************************************************************)
(* Model of custom_components/ab_gateway/discovery.py: the MQTT discovery  *)
(* pipeline of the AB gateway scanner.  A transport message is decoded     *)
(* (msgpack, JSON fallback), each device entry is normalised and put on    *)
(* the scanner's "adv" queue, and the scanner's processing loop takes one  *)
(* item at a time, parses it, updates the scanner's caches and calls the   *)
(* advertisement callback.                                                 *)
(*                                                                         *)
(* Python strings are sequences of one-character strings, bytes objects    *)
(* are sequences of integers 0..255.  A Python call that may raise is an   *)
(* operator returning a record whose field exc names the exception ("" is  *)
(* a normal return).                                                       *)
(***************************************************************************)
EXTENDS Integers, Sequences, FiniteSets, TLC

\* ------------------------------------------------------------------ bounds
\* Transport messages delivered in one behaviour.
MaxMsgs == 2

\* The scanner instances (one per config entry handed to async_start).
Scanners == {"s1", "s2"}

\* --------------------------------------------------------------- constants
\* const.py: DOMAIN (a reserved word here, hence DOMAIN_NAME) and the list
\* indexes of a device entry (0-based, as in Python).
DOMAIN_NAME == "ab_gateway"
INDEX_MAC == 1
INDEX_RSSI == 2
INDEX_ADV == 3

\* ------------------------------------------------------------ str and bytes
HexDigits == <<"0","1","2","3","4","5","6","7","8","9","a","b","c","d","e","f">>
UpperHex == <<"A","B","C","D","E","F">>
LowerOfUpper == <<"a","b","c","d","e","f">>

\* Python's seq[lo:hi] (0-based, hi exclusive, clipped to the length).
Slice(seq, lo, hi) ==
    SubSeq(seq, lo + 1, IF hi < Len(seq) THEN hi ELSE Len(seq))

\* bytes.hex(): two lowercase hex digits per byte.
RECURSIVE BytesHex(_)
BytesHex(bs) ==
    IF bs = <<>> THEN <<>>
    ELSE <<HexDigits[(Head(bs) \div 16) + 1], HexDigits[(Head(bs) % 16) + 1]>>
         \o BytesHex(Tail(bs))

\* The characters of the strings modelled: the hex digits of both cases and
\* one letter that is no hex digit.
Chars ==
    {HexDigits[i] : i \in 1..16} \cup {UpperHex[i] : i \in 1..6} \cup {"g"}

\* str.lower() on one character.
LowerOf ==
    [c \in Chars |->
        IF \E i \in 1..6 : UpperHex[i] = c
        THEN LowerOfUpper[CHOOSE i \in 1..6 : UpperHex[i] = c]
        ELSE c]

LowerChar(c) == LowerOf[c]

\* str.lower().
StrLower(s) == [i \in 1..Len(s) |-> LowerChar(s[i])]

\* Value of a hex digit of either case, -1 for any other character.
HexValOf ==
    [c \in Chars |->
        IF \E i \in 1..16 : HexDigits[i] = LowerOf[c]
        THEN (CHOOSE i \in 1..16 : HexDigits[i] = LowerOf[c]) - 1
        ELSE -1]

HexVal(c) == HexValOf[c]

RECURSIVE HexPairs(_)
HexPairs(s) ==
    IF s = <<>> THEN <<>>
    ELSE <<16 * HexVal(s[1]) + HexVal(s[2])>> \o HexPairs(SubSeq(s, 3, Len(s)))

\* bytes.fromhex(s): ValueError on an odd length or a non-hex character.
FromHex(s) ==
    IF Len(s) % 2 = 1 \/ \E i \in 1..Len(s) : HexVal(s[i]) = -1
    THEN [exc |-> "ValueError", val |-> <<>>]
    ELSE [exc |-> "", val |-> HexPairs(s)]

\* ------------------------------------------------------------------ inputs
Mac1 == <<17, 34, 51, 68, 85, 102>>
Mac2 == <<170, 187, 204, 221, 238, 255>>
Mac1Str == <<"1","1","2","2","3","3","4","4","5","5","6","6">>
Mac2Upper == <<"A","A","B","B","C","C","D","D","E","E","F","F">>
Mac2Mixed == <<"a","A","b","B","c","C","d","D","e","E","f","F">>

\* A device entry of a report: a bytes object, or a list
\* [adType, mac, rssi, advHex].
BytesDev(bs) == [t |-> "bytes", data |-> bs, lst |-> <<>>]
ListDev(adtype, mac, rssi, adv) ==
    [t |-> "list", data |-> <<>>, lst |-> <<adtype, mac, rssi, adv>>]

B1 == BytesDev(<<2>> \o Mac1 \o <<200>> \o <<1, 2>>)
B2 == BytesDev(<<0>> \o Mac2 \o <<186>>)
B3 == BytesDev(<<3>> \o Mac1 \o <<255>> \o <<255>>)
BShort == BytesDev(<<2, 17, 34>>)
L1 == ListDev(2, Mac1Str, -56, <<"0","1","0","2">>)
L2 == ListDev(0, Mac2Upper, -70, <<>>)
L3 == ListDev(3, Mac2Mixed, 5, <<"0","9">>)
LBadHex == ListDev(2, Mac2Mixed, -70, <<"0","g">>)

\* A transport message body, by what the two decoders make of it: msgpack of
\* a report, JSON text of a report, or bytes that neither decoder accepts.
Msg(kind, mac, devices) == [kind |-> kind, mac |-> mac, devices |-> devices]

Messages ==
    { Msg("msgpack", "gwB", <<B2, B1>>),
      Msg("msgpack", "gwA", <<B3, B1>>),
      Msg("msgpack", "gwA", <<B1, BShort>>),
      Msg("json", "gwA", <<L3, L2>>),
      Msg("json", "gwB", <<L1, LBadHex>>),
      Msg("msgpack", "gwB", <<L1, LBadHex>>) }
    \cup { Msg(k, "", <<>>) :
             k \in {"truncated", "badstr", "extra_badutf8", "extra_badjson"} }

\* ---------------------------------------------------------------- decoding
\* msgpack.unpackb(msg.payload): the report, ExtraData on trailing data (JSON
\* text starts with a byte that is a complete msgpack value), ValueError on
\* incomplete or malformed input, UnicodeDecodeError on a str that is not
\* UTF-8.
unpackb(msg) ==
    CASE msg.kind = "msgpack" ->
            [exc |-> "", data |-> [mac |-> msg.mac, devices |-> msg.devices]]
      [] msg.kind = "truncated" ->
            [exc |-> "ValueError", data |-> [mac |-> "", devices |-> <<>>]]
      [] msg.kind = "badstr" ->
            [exc |-> "UnicodeDecodeError", data |-> [mac |-> "", devices |-> <<>>]]
      [] OTHER ->
            [exc |-> "ExtraData", data |-> [mac |-> "", devices |-> <<>>]]

\* json.loads(msg.payload).
json_loads(msg) ==
    CASE msg.kind = "json" ->
            [exc |-> "", data |-> [mac |-> msg.mac, devices |-> msg.devices]]
      [] msg.kind = "extra_badutf8" ->
            [exc |-> "UnicodeDecodeError", data |-> [mac |-> "", devices |-> <<>>]]
      [] OTHER ->
            [exc |-> "ValueError", data |-> [mac |-> "", devices |-> <<>>]]

\* ----------------------------------------------------------- normalisation
\* convert_dev_to_dict(data), data a bytes object: data[7] raises IndexError
\* when data has fewer than 8 bytes.
\* (Faulty variant, for C11: the payload is taken from byte 7 on.)
convert_dev_to_dict_PayloadFrom7(data) ==
    IF Len(data) < 8 THEN [exc |-> "IndexError", val |-> <<>>]
    ELSE [exc |-> "",
          val |-> <<data[0 + 1], BytesHex(Slice(data, 1, 7)),
                    data[7 + 1] - 256, Slice(data, 7, Len(data))>>]

\* (Faulty variant, for C10: the RSSI byte is kept as it is.)
convert_dev_to_dict_NoBias(data) ==
    IF Len(data) < 8 THEN [exc |-> "IndexError", val |-> <<>>]
    ELSE [exc |-> "",
          val |-> <<data[1], BytesHex(Slice(data, 1, 7)), data[8],
                    Slice(data, 8, Len(data))>>]

convert_dev_to_dict(data) ==
    IF Len(data) < 8 THEN [exc |-> "IndexError", val |-> <<>>]
    ELSE LET adpayload_start == 8
             rssi_index == 7
             adtype == data[0 + 1]
             mac == BytesHex(Slice(data, 1, 7))
             adpayload == Slice(data, adpayload_start, Len(data))
             rssi == data[rssi_index + 1] - 256
         IN  [exc |-> "", val |-> <<adtype, mac, rssi, adpayload>>]

\* The else branch of async_process_discovery_data's loop: the list is
\* changed in place, the MAC lowercased and the payload decoded from hex.
\* (Faulty variant, for C9: the MAC is not lowercased.)
normalize_list_NoLower(lst) ==
    LET adv == FromHex(lst[3 + 1])
    IN  IF adv.exc # "" THEN [exc |-> adv.exc, val |-> <<>>]
        ELSE [exc |-> "", val |-> [lst EXCEPT ![INDEX_ADV + 1] = adv.val]]

normalize_list(lst) ==
    LET lowered == [lst EXCEPT ![INDEX_MAC + 1] = StrLower(lst[INDEX_MAC + 1])]
        adv == FromHex(lowered[3 + 1])
    IN  IF adv.exc # "" THEN [exc |-> adv.exc, val |-> <<>>]
        ELSE [exc |-> "", val |-> [lowered EXCEPT ![INDEX_ADV + 1] = adv.val]]

\* One device entry, by the type test of line 110.
normalize(dev) ==
    IF dev.t = "bytes" THEN convert_dev_to_dict(dev.data)
    ELSE normalize_list(dev.lst)

\* ------------------------------------------------------------------- queue
\* DiscoveryQueue.put(name, item): the item goes to the tail; the caller is
\* never made to wait.
\* (Faulty variant, for C8: a queue of one slot whose put waits for room.)
QueueCanPut_Bounded(q) == Len(q) < 1

QueueCanPut(q) == TRUE

QueuePut(q, item) == Append(q, item)

\* The queue object a scanner takes from hass.data[DOMAIN]["queues"] when it
\* is made: each scanner instance has a queue of its own.
\* (Faulty variant, for C14: every scanner is handed the same queue object.)
QueueOf_Shared(s) == "s1"

QueueOf(s) == s

Queues == {QueueOf(s) : s \in Scanners}

\* An item of the queue: gateway_id and device are the program's; n (the
\* number of the put), raw (the entry it was made from), by (the scanner
\* whose handler put it) and msg (the number of its message) are
\* history.
Item(gw, device, n, raw, by, msg) ==
    [gateway_id |-> gw, device |-> device, n |-> n, raw |-> raw, by |-> by,
     msg |-> msg]

\* async_process_discovery_data(data): the loop over data['devices'], from
\* entry i on, with queue q; stops at the first entry that raises.  "Blocked"
\* stands for a put that does not return.
RECURSIVE process_devices(_, _, _, _, _, _)
process_devices(data, i, q, n, by, msg) ==
    IF i > Len(data.devices) THEN [exc |-> "", q |-> q]
    ELSE LET dev == data.devices[i]
             r == normalize(dev)
         IN  IF r.exc # "" THEN [exc |-> r.exc, q |-> q]
             ELSE IF ~QueueCanPut(q) THEN [exc |-> "Blocked", q |-> q]
             ELSE process_devices(
                      data, i + 1,
                      QueuePut(q, Item(data.mac, r.val, n + 1, dev, by, msg)),
                      n + 1, by, msg)

async_process_discovery_data(data, q, n, by, msg) ==
    process_devices(data, 1, q, n, by, msg)

\* async_message_received(msg): result is "returned", "raised" or "blocked"
\* (a put never returned).  An
\* exception raised inside the ExtraData handler is not caught by the later
\* except clauses; the ValueError handler itself raises NameError (it logs
\* the undefined name payload).  json tells whether json.loads was called.
Outcome(result, exc, q, json) ==
    [result |-> result, exc |-> exc, q |-> q, json |-> json]

\* (Faulty variant, for C15: JSON is also tried after a ValueError.)
async_message_received_JsonOnAnyError(m, q, n, by, msg) ==
    LET u == unpackb(m)
        p == async_process_discovery_data(u.data, q, n, by, msg)
        exc == IF u.exc # "" THEN u.exc ELSE p.exc
        q1 == IF u.exc # "" THEN q ELSE p.q
        j == json_loads(m)
        pj == async_process_discovery_data(j.data, q, n, by, msg)
    IN  CASE exc = "" -> Outcome("returned", "", q1, FALSE)
          [] exc = "Blocked" -> Outcome("blocked", "", q1, FALSE)
          [] exc \in {"ExtraData", "ValueError"} ->
                IF j.exc # "" THEN Outcome("raised", j.exc, q, TRUE)
                ELSE IF pj.exc = "Blocked" THEN Outcome("blocked", "", pj.q, TRUE)
                ELSE IF pj.exc # "" THEN Outcome("raised", pj.exc, pj.q, TRUE)
                ELSE Outcome("returned", "", pj.q, TRUE)
          [] exc = "UnicodeDecodeError" -> Outcome("returned", "", q1, FALSE)
          [] exc = "ValueError" -> Outcome("raised", "NameError", q1, FALSE)
          [] OTHER -> Outcome("raised", exc, q1, FALSE)

async_message_received(m, q, n, by, msg) ==
    LET u == unpackb(m)
        p == async_process_discovery_data(u.data, q, n, by, msg)
        exc == IF u.exc # "" THEN u.exc ELSE p.exc
        q1 == IF u.exc # "" THEN q ELSE p.q
        j == json_loads(m)
        pj == async_process_discovery_data(j.data, q, n, by, msg)
    IN  CASE exc = "" -> Outcome("returned", "", q1, FALSE)
          [] exc = "Blocked" -> Outcome("blocked", "", q1, FALSE)
          [] exc = "ExtraData" ->
                IF j.exc # "" THEN Outcome("raised", j.exc, q, TRUE)
                ELSE IF pj.exc = "Blocked" THEN Outcome("blocked", "", pj.q, TRUE)
                ELSE IF pj.exc # "" THEN Outcome("raised", pj.exc, pj.q, TRUE)
                ELSE Outcome("returned", "", pj.q, TRUE)
          [] exc = "UnicodeDecodeError" -> Outcome("returned", "", q1, FALSE)
          [] exc = "ValueError" -> Outcome("raised", "NameError", q1, FALSE)
          [] OTHER -> Outcome("raised", exc, q1, FALSE)

\* A message whose body cannot be decoded into a report: a decoder fails for
\* a reason other than trailing data, or a device entry cannot be normalised.
Undecodable(m) ==
    \/ m.kind \in {"truncated", "badstr", "extra_badutf8", "extra_badjson"}
    \/ \E i \in 1..Len(m.devices) : normalize(m.devices[i]).exc # ""

\* --------------------------------------------------------------- variables
VARIABLES
    spc,         \* per scanner: position of its async_run task
    subscribed,  \* scanners whose transport subscription is active
    hasUnsub,    \* DISCOVERY_UNSUBSCRIBE in hass.data
    unsubList,   \* hass.data[DISCOVERY_UNSUBSCRIBE]: unsubscribe handles
    unsubCalls,  \* per subscription: times its unsubscribe handle was invoked
    queue,       \* per queue object: the items of its channel "adv"
    advDatas,    \* per scanner: _discovered_device_advertisement_datas
    timestamps,  \* per scanner: _discovered_device_timestamps
    events,      \* the calls of the advertisement callback, in order
    clock,       \* the last value time.monotonic() returned
    nmsgs,       \* messages delivered so far
    nput,        \* items put on the queue so far
    stopped,     \* async_stop has been called
    tickedAfterStop, \* scanners whose queue wait timed out since its last call
    lastCall     \* the last call of async_message_received: its message, its
                 \* scanner, whether json.loads ran, and its outcome

vars == <<spc, subscribed, hasUnsub, unsubList, unsubCalls, queue, advDatas,
          timestamps, events, clock, nmsgs, nput, stopped,
                   tickedAfterStop, lastCall>>

NoCall == [result |-> "none", exc |-> "", puts |-> 0, undecodable |-> FALSE,
           json |-> FALSE, by |-> "", msg |-> Msg("none", "", <<>>)]

Init ==
    /\ spc = [s \in Scanners |-> "notstarted"]
    /\ subscribed = {}
    /\ hasUnsub = FALSE
    /\ unsubList = <<>>
    /\ unsubCalls = [s \in Scanners |-> 0]
    /\ queue = [q \in Queues |-> <<>>]
    /\ advDatas = [s \in Scanners |-> <<>>]
    /\ timestamps = [s \in Scanners |-> <<>>]
    /\ events = <<>>
    /\ clock = 0
    /\ nmsgs = 0
    /\ nput = 0
    /\ stopped = FALSE
    /\ tickedAfterStop = {}
    /\ lastCall = NoCall

\* ----------------------------------------------------------------- parsing
\* ble_parser.parse_data(record): the device identity and the advertisement
\* of a canonical record, or ParseError for a payload of no known format.
\* The address is the record's MAC; the names (strings, as sequences of
\* characters) are read off the first byte of the payload.
FirstByte(payload) == IF payload = <<>> THEN -1 ELSE payload[1]

parse_data(record) ==
    LET payload == record[INDEX_ADV + 1]
    IN  IF FirstByte(payload) = 255
        THEN [exc |-> "ParseError",
              device |-> [address |-> <<>>, name |-> <<>>],
              advertisement_data |-> [local_name |-> <<>>, rssi |-> 0,
                                      data |-> <<>>]]
        ELSE [exc |-> "",
              device |-> [address |-> record[INDEX_MAC + 1],
                          name |-> IF FirstByte(payload) \in {1, 9}
                                   THEN <<"d", "e", "v">> ELSE <<>>],
              advertisement_data |->
                  [local_name |-> IF FirstByte(payload) = 9
                                  THEN <<"l", "o", "c">> ELSE <<>>,
                   rssi |-> record[INDEX_RSSI + 1],
                   data |-> payload]]

\* ------------------------------------------------------------- the scanner
\* dict[key] = value.
Upsert(f, k, v) == [x \in (DOMAIN f) \cup {k} |-> IF x = k THEN v ELSE f[x]]

\* a or b or c on strings: the first that is not empty, else c.
\* (Faulty variant, for C13: the device name is passed over.)
Or3_SkipSecond(a, b, c) == IF a # <<>> THEN a ELSE c

Or3(a, b, c) == IF a # <<>> THEN a ELSE IF b # <<>> THEN b ELSE c

\* async_on_advertisement(data) of scanner s at time now: the caches after
\* it and the event handed to the callback, or the exception of the parser
\* with the caches untouched.
\* (Faulty variant, for C7: an address already cached is not overwritten.)
async_on_advertisement_KeepFirst(s, data, now) ==
    LET r == parse_data(data.device)
        device == r.device
        adv == r.advertisement_data
        known == device.address \in DOMAIN advDatas[s]
    IN  [exc |-> r.exc,
         advDatas |-> IF r.exc # "" \/ known THEN advDatas[s]
                      ELSE Upsert(advDatas[s], device.address,
                                  [device |-> device, advertisement |-> adv]),
         timestamps |-> IF r.exc # "" \/ known THEN timestamps[s]
                        ELSE Upsert(timestamps[s], device.address, now),
         event |-> [name |-> Or3(adv.local_name, device.name, device.address),
                    address |-> device.address,
                    rssi |-> adv.rssi,
                    source |-> <<DOMAIN_NAME, "_", data.gateway_id>>,
                    device |-> device,
                    advertisement |-> adv,
                    time |-> now,
                    n |-> data.n,
                    scanner |-> s]]

\* (Faulty variant, for C12: the source is made from the scanner's own id.)
async_on_advertisement_OwnSource(s, data, now) ==
    LET r == parse_data(data.device)
        device == r.device
        adv == r.advertisement_data
    IN  [exc |-> r.exc,
         advDatas |-> IF r.exc # "" THEN advDatas[s]
                      ELSE Upsert(advDatas[s], device.address,
                                  [device |-> device, advertisement |-> adv]),
         timestamps |-> IF r.exc # "" THEN timestamps[s]
                        ELSE Upsert(timestamps[s], device.address, now),
         event |-> [name |-> Or3(adv.local_name, device.name, device.address),
                    address |-> device.address,
                    rssi |-> adv.rssi,
                    source |-> <<DOMAIN_NAME, "_", s>>,
                    device |-> device,
                    advertisement |-> adv,
                    time |-> now,
                    n |-> data.n,
                    scanner |-> s]]

\* (Faulty variant, for C18: the timestamp of a known address is kept.)
async_on_advertisement_StaleTimestamp(s, data, now) ==
    LET r == parse_data(data.device)
        device == r.device
        adv == r.advertisement_data
    IN  [exc |-> r.exc,
         advDatas |-> IF r.exc # "" THEN advDatas[s]
                      ELSE Upsert(advDatas[s], device.address,
                                  [device |-> device, advertisement |-> adv]),
         timestamps |-> IF r.exc # "" \/ device.address \in DOMAIN timestamps[s]
                        THEN timestamps[s]
                        ELSE Upsert(timestamps[s], device.address, now),
         event |-> [name |-> Or3(adv.local_name, device.name, device.address),
                    address |-> device.address,
                    rssi |-> adv.rssi,
                    source |-> <<DOMAIN_NAME, "_", data.gateway_id>>,
                    device |-> device,
                    advertisement |-> adv,
                    time |-> now,
                    n |-> data.n,
                    scanner |-> s]]

async_on_advertisement(s, data, now) ==
    LET r == parse_data(data.device)
        device == r.device
        adv == r.advertisement_data
    IN  [exc |-> r.exc,
         advDatas |-> IF r.exc # "" THEN advDatas[s]
                      ELSE Upsert(advDatas[s], device.address,
                                  [device |-> device, advertisement |-> adv]),
         timestamps |-> IF r.exc # "" THEN timestamps[s]
                        ELSE Upsert(timestamps[s], device.address, now),
         event |-> [name |-> Or3(adv.local_name, device.name, device.address),
                    address |-> device.address,
                    rssi |-> adv.rssi,
                    source |-> <<DOMAIN_NAME, "_", data.gateway_id>>,
                    device |-> device,
                    advertisement |-> adv,
                    time |-> now,
                    n |-> data.n,
                    scanner |-> s]]

\* ----------------------------------------------------------------- actions
\* async_start: a new scanner is made and its async_run task created.
AsyncStart(s) ==
    /\ spc[s] = "notstarted"
    /\ spc' = [spc EXCEPT ![s] = "subscribing"]
    /\ UNCHANGED <<subscribed, hasUnsub, unsubList, unsubCalls, queue,
                   advDatas, timestamps, events, clock, nmsgs, nput, stopped,
                   tickedAfterStop, lastCall>>

\* async_run up to its loop: the topic is subscribed and the list of
\* unsubscribe handles is stored, replacing what hass.data held.
Subscribe(s) ==
    /\ spc[s] = "subscribing"
    /\ spc' = [spc EXCEPT ![s] = "waiting"]
    /\ subscribed' = subscribed \cup {s}
    /\ hasUnsub' = TRUE
    /\ unsubList' = <<s>>
    /\ UNCHANGED <<unsubCalls, queue, advDatas, timestamps, events, clock,
                   nmsgs, nput, stopped, tickedAfterStop, lastCall>>

\* time.monotonic(): each call returns more than the call before it.
monotonic == clock + 1

\* One turn of async_run's loop with an item: data is taken off the queue
\* (rest is what stays) and async_on_advertisement runs to its end; an
\* exception other than TimeoutError leaves the loop and ends the task.
\* (Faulty variant, for C17: the turn is cut short after the cache update,
\* before the callback.)
ProcessItem_CacheOnly(s, data, rest, now) ==
    LET r == async_on_advertisement(s, data, now)
    IN  /\ queue' = [queue EXCEPT ![QueueOf(s)] = rest]
        /\ IF r.exc # ""
           THEN /\ spc' = [spc EXCEPT ![s] = "failed"]
                /\ UNCHANGED <<advDatas, timestamps, events, clock>>
           ELSE /\ advDatas' = [advDatas EXCEPT ![s] = r.advDatas]
                /\ timestamps' = [timestamps EXCEPT ![s] = r.timestamps]
                /\ events' = events
                /\ clock' = now
                /\ UNCHANGED spc
        /\ UNCHANGED <<subscribed, hasUnsub, unsubList, unsubCalls, nmsgs,
                       nput, stopped, tickedAfterStop, lastCall>>

ProcessItem(s, data, rest, now) ==
    LET r == async_on_advertisement(s, data, now)
    IN  /\ queue' = [queue EXCEPT ![QueueOf(s)] = rest]
        /\ IF r.exc # ""
           THEN /\ spc' = [spc EXCEPT ![s] = "failed"]
                /\ UNCHANGED <<advDatas, timestamps, events, clock>>
           ELSE /\ advDatas' = [advDatas EXCEPT ![s] = r.advDatas]
                /\ timestamps' = [timestamps EXCEPT ![s] = r.timestamps]
                /\ events' = Append(events, r.event)
                /\ clock' = now
                /\ UNCHANGED spc
        /\ UNCHANGED <<subscribed, hasUnsub, unsubList, unsubCalls, nmsgs,
                       nput, stopped, tickedAfterStop, lastCall>>

\* (Faulty variant, for C5: the loop takes the newest item.)
AsyncRunItem_Lifo(s) ==
    /\ spc[s] = "waiting"
    /\ queue[QueueOf(s)] # <<>>
    /\ LET q == queue[QueueOf(s)]
       IN  ProcessItem(s, q[Len(q)], SubSeq(q, 1, Len(q) - 1), monotonic)

AsyncRunItem(s) ==
    /\ spc[s] = "waiting"
    /\ queue[QueueOf(s)] # <<>>
    /\ ProcessItem(s, Head(queue[QueueOf(s)]), Tail(queue[QueueOf(s)]),
                   monotonic)

\* One turn of the loop without an item: wait_for raises TimeoutError after a
\* second, the handler passes and the loop goes on.
\* (Faulty variant, for C16: the wait that timed out had taken an item.)
AsyncRunTimeout_TakesItem(s) ==
    /\ spc[s] = "waiting"
    /\ queue[QueueOf(s)] # <<>>
    /\ queue' = [queue EXCEPT ![QueueOf(s)] = Tail(queue[QueueOf(s)])]
    /\ tickedAfterStop' = IF stopped THEN tickedAfterStop \cup {s}
                          ELSE tickedAfterStop
    /\ UNCHANGED <<spc, subscribed, hasUnsub, unsubList, unsubCalls,
                   advDatas, timestamps, events, clock, nmsgs, nput, stopped,
                   lastCall>>

AsyncRunTimeout(s) ==
    /\ spc[s] = "waiting"
    /\ tickedAfterStop' = IF stopped THEN tickedAfterStop \cup {s}
                          ELSE tickedAfterStop
    /\ UNCHANGED <<spc, subscribed, hasUnsub, unsubList, unsubCalls, queue,
                   advDatas, timestamps, events, clock, nmsgs, nput, stopped,
                   lastCall>>

\* The transport delivers message m to the handler of scanner s's
\* subscription: async_message_received runs to its end.
\* (Faulty variant, for C19: the handler is suspended after its first put and
\* the handler of another message runs to its end meanwhile.)
MessageReceived_Yielding(s, m) ==
    /\ s \in subscribed
    /\ nmsgs + 1 < MaxMsgs
    /\ Len(m.devices) = 2
    /\ nmsgs' = nmsgs + 2
    /\ \E m2 \in Messages :
           LET q == queue[QueueOf(s)]
               r1 == async_message_received(
                         Msg(m.kind, m.mac, SubSeq(m.devices, 1, 1)),
                         q, nput, s, nmsgs + 1)
               r2 == async_message_received(
                         m2, r1.q, nput + (Len(r1.q) - Len(q)), s, nmsgs + 2)
               r3 == async_message_received(
                         Msg(m.kind, m.mac, Tail(m.devices)),
                         r2.q, nput + (Len(r2.q) - Len(q)), s, nmsgs + 1)
           IN  /\ queue' = [queue EXCEPT ![QueueOf(s)] = r3.q]
               /\ nput' = nput + (Len(r3.q) - Len(q))
               /\ lastCall' = [result |-> r3.result, exc |-> r3.exc,
                               puts |-> Len(r3.q) - Len(r2.q),
                               undecodable |-> Undecodable(m),
                               json |-> r3.json, by |-> s, msg |-> m]
    /\ UNCHANGED <<spc, subscribed, hasUnsub, unsubList, unsubCalls, advDatas,
                   timestamps, events, clock, stopped, tickedAfterStop>>

MessageReceived(s, m) ==
    /\ s \in subscribed
    /\ nmsgs < MaxMsgs
    /\ nmsgs' = nmsgs + 1
    /\ LET q == queue[QueueOf(s)]
           r == async_message_received(m, q, nput, s, nmsgs + 1)
       IN  /\ queue' = [queue EXCEPT ![QueueOf(s)] = r.q]
           /\ nput' = nput + (Len(r.q) - Len(q))
           /\ lastCall' = [result |-> r.result, exc |-> r.exc,
                           puts |-> Len(r.q) - Len(q),
                           undecodable |-> Undecodable(m),
                           json |-> r.json, by |-> s, msg |-> m]
    /\ UNCHANGED <<spc, subscribed, hasUnsub, unsubList, unsubCalls, advDatas,
                   timestamps, events, clock, stopped, tickedAfterStop>>

\* The handles of unsubList in order, each invoked once.
RECURSIVE CallAll(_, _)
CallAll(handles, calls) ==
    IF handles = <<>> THEN calls
    ELSE CallAll(Tail(handles),
                 [calls EXCEPT ![Head(handles)] = calls[Head(handles)] + 1])

\* async_stop.
AsyncStop ==
    /\ stopped' = TRUE
    /\ tickedAfterStop' = {}
    /\ IF hasUnsub
       THEN /\ unsubCalls' = CallAll(unsubList, unsubCalls)
            /\ subscribed' = subscribed \ {unsubList[i] : i \in 1..Len(unsubList)}
            /\ unsubList' = <<>>
       ELSE UNCHANGED <<unsubCalls, subscribed, unsubList>>
    /\ UNCHANGED <<spc, hasUnsub, queue, advDatas, timestamps, events, clock,
                   nmsgs, nput, lastCall>>

Next ==
    \/ \E s \in Scanners : AsyncStart(s)
    \/ \E s \in Scanners : Subscribe(s)
    \/ \E s \in Scanners : AsyncRunItem(s)
    \/ \E s \in Scanners : AsyncRunTimeout(s)
    \/ \E s \in Scanners, m \in Messages : MessageReceived(s, m)
    \/ AsyncStop

Spec == Init /\ [][Next]_vars

\* The event loop runs every task that can run: a created task gets to its
\* subscription, and a loop whose queue.get() is ready is resumed.
FairSpec ==
    /\ Spec
    /\ \A s \in Scanners : WF_vars(Subscribe(s)) /\ WF_vars(AsyncRunItem(s))

\* ------------------------------------------------------------------ claims
Running(s) == spc[s] = "waiting"
Upper(c) == \E i \in 1..6 : UpperHex[i] = c
MacOf(item) == item.device[INDEX_MAC + 1]
RssiOf(item) == item.device[INDEX_RSSI + 1]
ParseOk(item) == parse_data(item.device).exc = ""
Items(q) == {queue[q][i] : i \in 1..Len(queue[q])}
Queued == UNION {Items(q) : q \in Queues}
QueuedNs(s) == {item.n : item \in Items(QueueOf(s))}
RECURSIVE SumLen(_)
SumLen(Q) ==
    IF Q = {} THEN 0
    ELSE LET q == CHOOSE x \in Q : TRUE
         IN  Len(queue[q]) + SumLen(Q \ {q})
EventsOf(s, a) ==
    {i \in 1..Len(events) : events[i].scanner = s /\ events[i].address = a}
Max(S) == CHOOSE x \in S : \A y \in S : y <= x

\* C1: when the parser fails on the record taken off the queue, no event is
\* dispatched, the caches stay as they were and every processing loop is
\* still where it was (waiting for the next item).
C1_ParseFailureKeepsLoopRunning ==
    [][(\E q \in Queues :
            /\ queue[q] # <<>>
            /\ queue'[q] = Tail(queue[q])
            /\ ~ParseOk(Head(queue[q])))
         => /\ events' = events
            /\ advDatas' = advDatas
            /\ timestamps' = timestamps
            /\ spc' = spc]_vars

\* C2: the handler of a message whose body cannot be decoded into a report
\* returns normally and has put no item on the queue.
C2_UndecodableMessageIsDropped ==
    lastCall.undecodable => (lastCall.result = "returned" /\ lastCall.puts = 0)

\* C3: a scanner that async_stop has unsubscribed and whose queue wait has
\* timed out since has left its loop: it dispatches no further event,
\* whatever is left in the queue.
C3_NoDispatchAfterStop ==
    [][events' # events
         => LET s == events'[Len(events')].scanner
            IN  ~(unsubCalls[s] > 0 /\ s \in tickedAfterStop)]_vars

\* C4: after async_stop (and before any later subscription stores a handle)
\* the handle list is empty, no subscription is active and the handle of
\* every subscription ever made has been invoked exactly once.
C4_StopUnsubscribesAll ==
    (stopped /\ unsubList = <<>>)
        => /\ subscribed = {}
           /\ \A s \in Scanners :
                  spc[s] \in {"waiting", "failed"} => unsubCalls[s] = 1

\* C5: a queue holds its items in the order of their puts, and of two
\* events a scanner dispatched with the same address the one whose record
\* was put first was dispatched first.
C5_FifoDispatch ==
    /\ \A q \in Queues : \A i, j \in 1..Len(queue[q]) :
           i < j => queue[q][i].n < queue[q][j].n
    /\ \A i, j \in 1..Len(events) :
           (/\ i < j
            /\ events[i].scanner = events[j].scanner
            /\ events[i].address = events[j].address)
               => events[i].n < events[j].n

C5_Witness ==
    \E i, j \in 1..Len(events) :
        /\ i < j
        /\ events[i].address = events[j].address
        /\ events[i].scanner = events[j].scanner
        /\ queue[QueueOf(events[i].scanner)] # <<>>
        /\ \A s \in Scanners : Running(s)

\* C6: an item that is in a scanner's queue while the scanner's processing
\* loop is running is eventually taken off the queue, unless stop is
\* requested first.
C6_EveryItemEventuallyDequeued ==
    \A s \in Scanners : \A n \in 1..(2 * MaxMsgs) :
        ((n \in QueuedNs(s) /\ Running(s))
            ~> (n \notin QueuedNs(s) \/ stopped))

\* C7: each scanner's caches hold, for exactly the addresses it dispatched,
\* the identity, advertisement and timestamp of its latest event with that
\* address, and every item taken off the queue that parses has its event
\* (the one item a failed loop took is the only one without).
C7_LastWriteWins ==
    /\ \A s \in Scanners :
           /\ DOMAIN advDatas[s] =
                  {events[i].address : i \in {k \in 1..Len(events) :
                                                 events[k].scanner = s}}
           /\ DOMAIN timestamps[s] = DOMAIN advDatas[s]
           /\ \A a \in DOMAIN advDatas[s] :
                  LET last == events[Max(EventsOf(s, a))]
                  IN  /\ advDatas[s][a] = [device |-> last.device,
                                           advertisement |-> last.advertisement]
                      /\ timestamps[s][a] = last.time
    /\ Len(events) + Cardinality({s \in Scanners : spc[s] = "failed"})
           = nput - SumLen(Queues)

C7_Witness ==
    \E s \in Scanners : \E i, j \in 1..Len(events) :
        /\ i < j
        /\ events[i].scanner = s /\ events[j].scanner = s
        /\ events[i].address = events[j].address
        /\ events[i].advertisement # events[j].advertisement
        /\ advDatas[s][events[j].address].advertisement = events[j].advertisement
        /\ timestamps[s][events[j].address] = events[j].time

\* C8: no call of the message handler is ever left waiting in a put, however
\* many items the queue holds and whatever the processing loops do.
C8_PutNeverBlocks == lastCall.result # "blocked"

C8_Witness ==
    /\ lastCall.puts > 0
    /\ \E q \in Queues : Len(queue[q]) > lastCall.puts
    /\ \A s \in Scanners : ~Running(s)
    /\ lastCall.result = "returned"

\* C9: the MAC of every queued item has no uppercase hex digit; it is the
\* hex encoding of bytes 1..6 of a bytes entry and the lowercased MAC
\* element of a list entry.
C9_MacLowercase ==
    \A item \in Queued :
            /\ \A k \in 1..Len(MacOf(item)) : ~Upper(MacOf(item)[k])
            /\ item.raw.t = "bytes" =>
                   /\ Len(MacOf(item)) = 12
                   /\ FromHex(MacOf(item)).val = SubSeq(item.raw.data, 2, 7)
            /\ item.raw.t = "list" =>
                   /\ Len(MacOf(item)) = Len(item.raw.lst[2])
                   /\ \A k \in 1..Len(MacOf(item)) :
                          HexVal(MacOf(item)[k]) = HexVal(item.raw.lst[2][k])

C9_Witness ==
    /\ \E item \in Queued :
           /\ item.raw.t = "list"
           /\ \E k \in 1..Len(item.raw.lst[2]) : Upper(item.raw.lst[2][k])
    /\ \E item \in Queued :
           /\ item.raw.t = "bytes"
           /\ item.raw.data[2] >= 160

\* C10: the RSSI of a queued item made from a bytes entry is the entry's
\* byte 7 less 256, for every value 0..255 of that byte; the RSSI of an item
\* made from a list entry is the entry's RSSI element.
C10_Rssi ==
    /\ \A item \in Queued :
           /\ item.raw.t = "bytes" => RssiOf(item) = item.raw.data[8] - 256
           /\ item.raw.t = "list" => RssiOf(item) = item.raw.lst[3]
    /\ nput = 0 =>  \* a fact about the function: before the first put only
           \A v \in 0..255 :
               convert_dev_to_dict(<<2>> \o Mac1 \o <<v>>).val[INDEX_RSSI + 1]
                   = v - 256

C10_Witness ==
    /\ \E item \in Queued :
           /\ item.raw.t = "bytes"
           /\ item.raw.data[8] = 200
           /\ RssiOf(item) = -56
    /\ \E item \in Queued :
           /\ item.raw.t = "list"
           /\ RssiOf(item) = -70

\* The two wire shapes of one logical entry (adType, MAC bytes, RSSI,
\* payload bytes): the bytes object carries the RSSI plus 256 in byte 7, the
\* list carries the MAC and the payload as hex text.
UpperChar(c) ==
    IF \E i \in 1..6 : LowerOfUpper[i] = c
    THEN UpperHex[CHOOSE i \in 1..6 : LowerOfUpper[i] = c]
    ELSE c
StrUpper(s) == [i \in 1..Len(s) |-> UpperChar(s[i])]
EncodeBytes(adtype, mac, rssi, payload) ==
    BytesDev(<<adtype>> \o mac \o <<rssi + 256>> \o payload)
EncodeList(adtype, macText, rssi, payload) ==
    ListDev(adtype, macText, rssi, BytesHex(payload))
MacTexts(mac) == {BytesHex(mac), StrUpper(BytesHex(mac))}
SameLogical(b, l) ==
    /\ b.t = "bytes" /\ l.t = "list"
    /\ Len(b.data) >= 8
    /\ l.lst[1] = b.data[1]
    /\ FromHex(l.lst[2]) = [exc |-> "", val |-> SubSeq(b.data, 2, 7)]
    /\ l.lst[3] = b.data[8] - 256
    /\ FromHex(l.lst[4]) = [exc |-> "", val |-> SubSeq(b.data, 9, Len(b.data))]

\* C11: a bytes entry and a list entry that carry the same adType, MAC, RSSI
\* and payload (empty payload included) give the same device record: on the
\* queue, and for the function on every logical entry of a bounded set.
C11_FormatTransparency ==
    /\ \A b, l \in Queued :
           SameLogical(b.raw, l.raw) => b.device = l.device
    /\ nput = 0 =>
           \A adtype \in {0, 2, 255}, mac \in {Mac1, Mac2},
              rssi \in {-256, -128, -56, -1},
              payload \in {<<>>, <<1, 2>>, <<255>>} :
               \A macText \in MacTexts(mac) :
                   LET b == normalize(EncodeBytes(adtype, mac, rssi, payload))
                       l == normalize(EncodeList(adtype, macText, rssi, payload))
                   IN  /\ b.exc = "" /\ l.exc = ""
                       /\ b.val = l.val
                       /\ b.val = <<adtype, BytesHex(mac), rssi, payload>>

C11_Witness ==
    \E b, l \in Queued :
        /\ SameLogical(b.raw, l.raw)
        /\ b.device = l.device
        /\ b.device[INDEX_ADV + 1] = <<>>
        /\ \E k \in 1..Len(l.raw.lst[2]) : Upper(l.raw.lst[2][k])

\* C12: the items a handler call appends to the queue are the entries of its
\* message in report order, each with the gateway id of that message, and the
\* event dispatched for an item has the source DOMAIN, "_", the gateway id of
\* that item.
C12_GatewayAttribution ==
    [][/\ \A q \in Queues :
              Len(queue'[q]) > Len(queue[q]) =>
                  \A k \in (Len(queue[q]) + 1)..Len(queue'[q]) :
                      LET item == queue'[q][k]
                      IN  /\ item.gateway_id = lastCall'.msg.mac
                          /\ item.msg = nmsgs'
                          /\ item.raw = lastCall'.msg.devices[k - Len(queue[q])]
       /\ events' # events =>
              \E q \in Queues :
                  /\ queue[q] # <<>>
                  /\ queue'[q] = Tail(queue[q])
                  /\ LET e == events'[Len(events')]
                     IN  /\ e.n = Head(queue[q]).n
                         /\ e.source =
                                <<DOMAIN_NAME, "_", Head(queue[q]).gateway_id>>]_vars

C12_Witness ==
    /\ \E i, j \in 1..Len(events) :
           /\ events[i].scanner = events[j].scanner
           /\ events[i].source = <<DOMAIN_NAME, "_", "gwB">>
           /\ events[j].source = <<DOMAIN_NAME, "_", "gwA">>
    /\ \E item \in Queued : item.msg = 2 /\ item.gateway_id = lastCall.msg.mac

\* C13: the name of a dispatched event is the advertisement's local name
\* if that is not empty, else the name of the device the cache holds for the
\* address at dispatch if that is not empty, else the address; it is not
\* empty when the address is not.
C13_NameFallback ==
    [][events' # events =>
           LET e == events'[Len(events')]
               local == e.advertisement.local_name
               cached == advDatas'[e.scanner][e.address].device.name
           IN  /\ local # <<>> => e.name = local
               /\ (local = <<>> /\ cached # <<>>) => e.name = cached
               /\ (local = <<>> /\ cached = <<>>) => e.name = e.address
               /\ e.address # <<>> => e.name # <<>>]_vars

C13_Witness ==
    \E i, j, k \in 1..Len(events) :
        /\ events[i].name = <<"l", "o", "c">>
        /\ events[i].device.name = <<"d", "e", "v">>
        /\ events[j].name = <<"d", "e", "v">>
        /\ events[j].advertisement.local_name = <<>>
        /\ events[k].name = events[k].address
        /\ events[k].address # <<>>

C15_BinaryFirst ==
    /\ lastCall.json => unpackb(lastCall.msg).exc = "ExtraData"
    /\ unpackb(lastCall.msg).exc = "" => ~lastCall.json
    /\ lastCall.puts <= Len(lastCall.msg.devices)
    /\ \A a, b \in Queued : (a.msg = b.msg /\ a.raw = b.raw) => a = b

C15_Witness ==
    /\ lastCall.json
    /\ lastCall.result = "returned"
    /\ lastCall.puts = 2
    /\ \E a, b \in Queued :
           /\ a.msg = 1 /\ a.raw.t = "bytes"
           /\ b.msg = 2 /\ b.raw.t = "list"
           /\ a.by = b.by

\* C16: a step in which a queue wait times out leaves the queues, the
\* caches, the timestamps and the events as they were, and the loop is
\* waiting for the next item after it.
C16_TimeoutNoEffect ==
    [][\A s \in Scanners :
           AsyncRunTimeout(s) =>
               /\ queue' = queue
               /\ advDatas' = advDatas
               /\ timestamps' = timestamps
               /\ events' = events
               /\ spc'[s] = "waiting"]_vars

C16_Witness ==
    \E s \in tickedAfterStop :
        /\ Running(s)
        /\ queue[QueueOf(s)] # <<>>
        /\ DOMAIN advDatas[s] # {}
        /\ events # <<>>

\* C17: the step that takes a parseable item off a queue also writes the
\* item's cache entry and timestamp and dispatches its event, with no
\* message, stop or timeout in between; and no step changes a cache without
\* dispatching an event.
C17_ProcessingNotInterrupted ==
    [][/\ \A q \in Queues :
              (/\ queue[q] # <<>>
               /\ queue'[q] = Tail(queue[q])
               /\ ParseOk(Head(queue[q]))) =>
                  /\ Len(events') = Len(events) + 1
                  /\ LET e == events'[Len(events')]
                     IN  /\ e.n = Head(queue[q]).n
                         /\ e.address \in DOMAIN advDatas'[e.scanner]
                         /\ advDatas'[e.scanner][e.address] =
                                [device |-> e.device,
                                 advertisement |-> e.advertisement]
                         /\ timestamps'[e.scanner][e.address] = e.time
                  /\ stopped' = stopped
                  /\ nmsgs' = nmsgs
                  /\ tickedAfterStop' = tickedAfterStop
       /\ (advDatas' # advDatas \/ timestamps' # timestamps) =>
              Len(events') = Len(events) + 1]_vars

C17_Witness ==
    /\ stopped
    /\ nmsgs = MaxMsgs
    /\ events # <<>>
    /\ LET e == events[Len(events)]
       IN  /\ e.scanner \in tickedAfterStop
           /\ timestamps[e.scanner][e.address] = e.time
           /\ e.time = clock
           /\ queue[QueueOf(e.scanner)] # <<>>

\* C18: after every step the two caches of a scanner have the same
\* addresses, no step removes an address from a cache, and the time of an
\* event just dispatched is the timestamp the cache then holds for its
\* address.
C18_CachesAgree ==
    [][/\ \A s \in Scanners :
              /\ DOMAIN advDatas'[s] = DOMAIN timestamps'[s]
              /\ DOMAIN advDatas[s] \subseteq DOMAIN advDatas'[s]
              /\ DOMAIN timestamps[s] \subseteq DOMAIN timestamps'[s]
       /\ events' # events =>
              LET e == events'[Len(events')]
              IN  /\ e.address \in DOMAIN timestamps'[e.scanner]
                  /\ e.time = timestamps'[e.scanner][e.address]]_vars

C18_Witness ==
    \E s \in Scanners :
        /\ Cardinality(DOMAIN timestamps[s]) >= 2
        /\ \E i, j \in 1..Len(events) :
               /\ i < j
               /\ events[i].scanner = s /\ events[j].scanner = s
               /\ events[i].address = events[j].address
               /\ events[i].time < events[j].time
               /\ timestamps[s][events[j].address] = events[j].time

\* C19: the items of one message are put in one step, in which no loop takes
\* an item and nothing is dispatched, and they lie next to each other in the
\* queue: between two items of one message there is no item of another.
C19_ContiguousBlock ==
    [][/\ \A q \in Queues :
              Len(queue'[q]) > Len(queue[q]) =>
                  /\ SubSeq(queue'[q], 1, Len(queue[q])) = queue[q]
                  /\ \A k \in (Len(queue[q]) + 1)..Len(queue'[q]) :
                         /\ queue'[q][k].msg = nmsgs'
                         /\ queue'[q][k].n = nput + (k - Len(queue[q]))
                  /\ nmsgs' = nmsgs + 1
                  /\ events' = events
                  /\ spc' = spc
                  /\ \A o \in Queues \ {q} : queue'[o] = queue[o]
       /\ \A q \in Queues : \A i, j, k \in 1..Len(queue'[q]) :
              (i < j /\ j < k /\ queue'[q][i].msg = queue'[q][k].msg)
                  => queue'[q][j].msg = queue'[q][i].msg]_vars

C19_Witness ==
    \E q \in Queues :
        /\ Len(queue[q]) = 4
        /\ queue[q][1].msg = 1 /\ queue[q][2].msg = 1
        /\ queue[q][3].msg = 2 /\ queue[q][4].msg = 2
        /\ \E s \in Scanners : QueueOf(s) = q /\ Running(s)

====
